---- MODULE Spec2Model ----
(***************************************************************************)
(* Model of app.py of chess_analyser: the critical-moment detector         *)
(* (analyze_position), the background job (analyze_pgn_async) with its     *)
(* thread pool, and the two readers of the job registry (get_progress,     *)
(* get_results).                                                           *)
(*                                                                         *)
(* Optional values (Python's None) are sequences of length at most one:    *)
(* None is << >> and a present value v is << v >>.                         *)
(***************************************************************************)
EXTENDS Integers, Sequences, FiniteSets, TLC

\* ------------------------------------------------------------------------
\* Bounds of the model
\* ------------------------------------------------------------------------
MaxGames == 2        \* games in a corpus
MaxPly == 2          \* mainline moves of one game
MaxTasks == 2        \* positions of a corpus, all games together
MaxCpu == 1          \* largest os.cpu_count() drawn
MaxEval == 55        \* centipawn scores drawn from -MaxEval..MaxEval
MaxInfo == 3         \* candidates returned by the engine (multipv=3)

\* ------------------------------------------------------------------------
\* Program constants
\* ------------------------------------------------------------------------
EVAL_DIFFERENCE_THRESHOLD == 100
BandLimit == 50
MateScore == 10000
DefaultWorkers == 4
CentipawnsPerPawn == 100
PercentScale == 100
MantissaBits == 53

None == << >>
Some(v) == << v >>

EmptyCorpusMessage == "Le fichier PGN est invalide ou vide."

\* ------------------------------------------------------------------------
\* Python float arithmetic of  int(completed / total_positions * 100)
\* A double is  mant * 2^exp  with mant a 53-bit integer kept as a sequence
\* of bits, least significant first.
\* ------------------------------------------------------------------------
\* An intermediate result v of value d is bound as  Only({e : v \in {d}}),
\* which evaluates d once.
Only(S) == CHOOSE v \in S : TRUE

RECURSIVE Pow2(_)
Pow2(n) == IF n = 0 THEN 1 ELSE 2 * Pow2(n - 1)

\* least k with c * 2^k >= t   (0 < c <= t)
RECURSIVE NormShift(_, _)
NormShift(c, t) == IF c >= t THEN 0 ELSE 1 + NormShift(2 * c, t)

\* n further quotient bits of r / t (r < t), least significant first, and
\* the remainder left; the first half of the bits, then the second half
RECURSIVE LongDiv(_, _, _)
LongDiv(r, t, n) ==
    IF n = 0 THEN [bits |-> <<>>, rem |-> r]
    ELSE IF n = 1
    THEN IF 2 * r >= t THEN [bits |-> <<1>>, rem |-> 2 * r - t]
         ELSE [bits |-> <<0>>, rem |-> 2 * r]
    ELSE Only({Only({[bits |-> low.bits \o high.bits, rem |-> low.rem] :
                        low \in {LongDiv(high.rem, t, n - (n \div 2))}}) :
               high \in {LongDiv(r, t, n \div 2)}})

\* bs + 1: the low run of ones becomes zeros, the next bit becomes one
Inc(bs) ==
    Only({IF ones = Len(bs) THEN [i \in 1..Len(bs) |-> 0] \o <<1>>
          ELSE [i \in 1..Len(bs) |->
                   IF i <= ones THEN 0 ELSE IF i = ones + 1 THEN 1 ELSE bs[i]] :
          ones \in {Cardinality({i \in 1..Len(bs) :
                                    \A j \in 1..i : bs[j] = 1})}})

RECURSIVE ToBits(_)
ToBits(n) == IF n = 0 THEN <<>> ELSE <<n % 2>> \o ToBits(n \div 2)

\* bs * n + carry on Len(bs) bits, and the carry out; the low half of the
\* bits, then the high half
RECURSIVE MulPart(_, _, _)
MulPart(bs, n, carry) ==
    IF bs = <<>> THEN [bits |-> <<>>, carry |-> carry]
    ELSE IF Len(bs) = 1
    THEN Only({[bits |-> <<v % 2>>, carry |-> v \div 2] :
                  v \in {bs[1] * n + carry}})
    ELSE Only({Only({[bits |-> low.bits \o high.bits, carry |-> high.carry] :
                        high \in {MulPart(SubSeq(bs, Len(low.bits) + 1, Len(bs)),
                                          n, low.carry)}}) :
               low \in {MulPart(SubSeq(bs, 1, Len(bs) \div 2), n, carry)}})

MulSmall(bs, n, carry) ==
    Only({product.bits \o ToBits(product.carry) :
             product \in {MulPart(bs, n, carry)}})

RECURSIVE BitsVal(_)
BitsVal(bs) == IF bs = <<>> THEN 0 ELSE Head(bs) + 2 * BitsVal(Tail(bs))

\* drop the low `drop` bits, rounding to nearest, ties to even
RoundNearestEven(bs, drop) ==
    IF drop <= 0 THEN bs
    ELSE LET guard == bs[drop]
             sticky == \E i \in 1..(drop - 1) : bs[i] = 1
         IN Only({IF guard = 1 /\ (sticky \/ kept[1] = 1) THEN Inc(kept)
                  ELSE kept :
                  kept \in {SubSeq(bs, drop + 1, Len(bs))}})

\* completed / total_positions : int / int true division, correctly rounded
FloatDiv(c, t) ==
    LET k == NormShift(c, t)
    IN Only({Only({[mant |-> IF 2 * d.rem > t \/ (2 * d.rem = t /\ m[1] = 1)
                             THEN Inc(m) ELSE m,
                    exp |-> 0 - (k + MantissaBits - 1)] :
                      m \in {d.bits \o <<1>>}}) :
             d \in {LongDiv(c * Pow2(k) - t, t, MantissaBits - 1)}})

\* x * 100 : float * int, correctly rounded
FloatMulInt(x, n) ==
    Only({[mant |-> RoundNearestEven(p, Len(p) - MantissaBits),
           exp |-> x.exp + (Len(p) - MantissaBits)] :
             p \in {MulSmall(x.mant, n, 0)}})

\* int(x) for x >= 0 : truncation
FloatTrunc(x) ==
    LET s == 0 - x.exp
    IN IF s >= Len(x.mant) THEN 0
       ELSE BitsVal(SubSeq(x.mant, s + 1, Len(x.mant)))

\* a progress formula that counts the tasks still to do
ProgressPercent_Remaining(c, t) ==
    Only({Only({FloatTrunc(y) : y \in {FloatMulInt(x, PercentScale)}}) :
             x \in {FloatDiv(t - c + 1, t)}})

\* int(completed / total_positions * 100), 1 <= completed <= total_positions
ProgressPercent(c, t) ==
    Only({Only({FloatTrunc(y) : y \in {FloatMulInt(x, PercentScale)}}) :
             x \in {FloatDiv(c, t)}})

\* ------------------------------------------------------------------------
\* analyze_position
\* The engine's behaviour during one call is the oracle record o:
\*   o.open    "ok" | "raise"            popen_uci
\*   o.probe   "ok" | "empty" | "raise"  analyse(..., multipv=1)
\*   o.analyse "ok" | "raise"            analyse(..., multipv=3)
\*   o.info    the ranked candidates, each [eval, move]; eval is the value
\*             of score.white().score(mate_score=10000): None or an integer
\*   o.quit    "ok" | "raise"            quit(); it raises when the engine
\*             process has terminated, and then no session is left
\* ------------------------------------------------------------------------
Abs(x) == IF x < 0 THEN 0 - x ELSE x

\* str(score): the display form of a score, kept apart from the number
ScoreStr(e) == <<"score", e>>

\* the selection rule with an inclusive threshold
IsCritical_Inclusive(eval1_cp, eval2_cp) ==
    /\ Abs(eval1_cp - eval2_cp) >= EVAL_DIFFERENCE_THRESHOLD
    /\ 0 - BandLimit < eval2_cp
    /\ eval2_cp < BandLimit

IsCritical(eval1_cp, eval2_cp) ==
    /\ Abs(eval1_cp - eval2_cp) > EVAL_DIFFERENCE_THRESHOLD
    /\ 0 - BandLimit < eval2_cp
    /\ eval2_cp < BandLimit

CriticalMoment(position_data, info) ==
    [fen |-> position_data.board,
     move_number |-> position_data.move_number,
     turn |-> position_data.turn,
     best_move |-> info[1].move,
     best_move_eval |-> ScoreStr(info[1].eval),
     second_best_move |-> info[2].move,
     second_best_move_eval |-> ScoreStr(info[2].eval),
     difference |-> [num |-> Abs(info[1].eval[1] - info[2].eval[1]),
                     den |-> CentipawnsPerPawn]]

\* engine.quit() inside the try block (lines 88, 121, 124): the value is
\* returned unless quit raises
QuitThenReturn(o, ret) ==
    IF o.quit = "raise" THEN [raised |-> TRUE, ret |-> None, quit |-> FALSE]
    ELSE [raised |-> FALSE, ret |-> ret, quit |-> TRUE]

\* the try block with no engine.quit() before the last return
TryBody_NoQuitAtEnd(position_data, o) ==
    IF o.open = "raise" \/ o.probe = "raise"
    THEN [raised |-> TRUE, ret |-> None, quit |-> FALSE]
    ELSE IF o.probe = "empty" THEN QuitThenReturn(o, None)
    ELSE IF o.analyse = "raise"
    THEN [raised |-> TRUE, ret |-> None, quit |-> FALSE]
    ELSE IF /\ Len(o.info) >= 2
            /\ o.info[1].eval # None
            /\ o.info[2].eval # None
            /\ IsCritical(o.info[1].eval[1], o.info[2].eval[1])
         THEN QuitThenReturn(o, Some(CriticalMoment(position_data, o.info)))
         ELSE [raised |-> FALSE, ret |-> None, quit |-> FALSE]

\* the body of the try block (lines 80-125): what it returns or that it
\* raised, and whether it has called engine.quit()
TryBody(position_data, o) ==
    IF o.open = "raise" \/ o.probe = "raise"
    THEN [raised |-> TRUE, ret |-> None, quit |-> FALSE]
    ELSE IF o.probe = "empty" THEN QuitThenReturn(o, None)
    ELSE IF o.analyse = "raise"
    THEN [raised |-> TRUE, ret |-> None, quit |-> FALSE]
    ELSE IF /\ Len(o.info) >= 2
            /\ o.info[1].eval # None
            /\ o.info[2].eval # None
            /\ IsCritical(o.info[1].eval[1], o.info[2].eval[1])
         THEN QuitThenReturn(o, Some(CriticalMoment(position_data, o.info)))
         ELSE QuitThenReturn(o, None)

\* lines 65-131. The outcome of a call:
\*   raised    an exception leaves the call
\*   ret       the value returned (None when it raised)
\*   failed    an exception occurred inside the call
\*   released  the engine session the call had opened is no longer open
analyze_position(position_data, o) ==
    LET body == TryBody(position_data, o)
        engine_in_locals == o.open = "ok"
    IN IF ~body.raised
       THEN [raised |-> FALSE, ret |-> body.ret, failed |-> FALSE,
             released |-> body.quit]
       ELSE IF engine_in_locals /\ o.quit = "raise"
       THEN [raised |-> TRUE, ret |-> None, failed |-> TRUE,
             released |-> TRUE]
       ELSE [raised |-> FALSE, ret |-> None, failed |-> TRUE,
             released |-> engine_in_locals]

\* MAX_WORKERS = max(os.cpu_count() or 4, 4)
MAX_WORKERS_AtLeastDefault(cpu) ==
    IF cpu < DefaultWorkers THEN DefaultWorkers ELSE cpu

\* MAX_WORKERS = os.cpu_count() or 4 ; cpu = 0 stands for None
MAX_WORKERS(cpu) == IF cpu = 0 THEN DefaultWorkers ELSE cpu

\* ------------------------------------------------------------------------
\* State
\* ------------------------------------------------------------------------
VARIABLES
    cpu_count,          \* os.cpu_count(): 0 stands for None
    corpus,             \* the PGN file: the mainline length of each game
    analysis_progress,  \* analysis_progress[analysis_id], the job's entry
    pc,                 \* where the thread running analyze_pgn_async stands
    all_games,          \* local of analyze_pgn_async
    all_positions,      \* local of analyze_pgn_async
    futures,            \* future_to_position: one entry per submitted task
    completed,          \* local of analyze_pgn_async
    future,             \* the future the as_completed loop is handling
    exc,                \* the exception on its way to the except clause
    engines,            \* engine sessions open (Stockfish processes)
    rpc,                \* where a get_results request stands
    answer,             \* what a reader has just answered, None after any
                        \* other step
    detect,             \* one call of analyze_position on its own
    runs                \* two collections of the same tasks, side by side

vars == <<cpu_count, corpus, analysis_progress, pc, all_games, all_positions,
          futures, completed, future, exc, engines, rpc, answer, detect, runs>>

jobVars == <<cpu_count, corpus, analysis_progress, pc, all_games,
             all_positions, futures, completed, future, exc, engines>>


\* ------------------------------------------------------------------------
\* Inputs
\* ------------------------------------------------------------------------
RECURSIVE SeqsUpTo(_, _)
SeqsUpTo(S, n) ==
    IF n = 0 THEN {<<>>}
    ELSE LET shorter == SeqsUpTo(S, n - 1)
         IN shorter \cup {Append(q, x) : q \in shorter, x \in S}

RECURSIVE Sum(_)
Sum(q) == IF q = <<>> THEN 0 ELSE Head(q) + Sum(Tail(q))

Corpora == {c \in SeqsUpTo(0..MaxPly, MaxGames) : Sum(c) <= MaxTasks}

Candidate(e, m) == [eval |-> e, move |-> m]

OracleOk(info) ==
    [open |-> "ok", probe |-> "ok", analyse |-> "ok", info |-> info,
     quit |-> "ok"]

\* answers of an engine that has started: a clear best move, no clear best
\* move, and an engine process that dies during the second analysis
ClearBestMove ==
    OracleOk(<<Candidate(Some(200), "m1"), Candidate(Some(10), "m2")>>)

NoClearBestMove ==
    OracleOk(<<Candidate(Some(120), "m1"), Candidate(Some(30), "m2")>>)

EngineDies ==
    [open |-> "ok", probe |-> "ok", analyse |-> "raise", info |-> <<>>,
     quit |-> "raise"]

\* what the engine may do for a task of a job, once it has started: the
\* three above, a single candidate, an empty probe, a call that raises
OracleSample ==
    { ClearBestMove, NoClearBestMove, EngineDies,
      OracleOk(<<Candidate(Some(200), "m1")>>),
      [open |-> "ok", probe |-> "empty", analyse |-> "ok", info |-> <<>>,
       quit |-> "ok"],
      [open |-> "ok", probe |-> "ok", analyse |-> "raise", info |-> <<>>,
       quit |-> "ok"] }

OracleOpenRaises ==
    [open |-> "raise", probe |-> "ok", analyse |-> "ok", info |-> <<>>,
     quit |-> "ok"]

\* ------------------------------------------------------------------------
\* upload_file: the entry it stores before starting the thread
\* ------------------------------------------------------------------------
NewEntry ==
    [filename |-> "games.pgn",
     status |-> "starting",
     progress |-> 0,
     total_moves |-> 0,
     current_move |-> 0,
     results |-> None,
     error |-> None]

IdleDetect == [stage |-> "idle"]

IdleRuns == [stage |-> "idle"]

Init ==
    /\ cpu_count \in 0..MaxCpu
    /\ corpus \in Corpora
    /\ analysis_progress = NewEntry
    /\ pc = "start"
    /\ all_games = <<>>
    /\ all_positions = <<>>
    /\ futures = <<>>
    /\ completed = 0
    /\ future = 0
    /\ exc = None
    /\ engines = 0
    /\ rpc = "idle"
    /\ answer = None
    /\ detect = IdleDetect
    /\ runs = IdleRuns

\* ------------------------------------------------------------------------
\* analyze_pgn_async
\* ------------------------------------------------------------------------
\* lines 143-164: the entry exists already, so the else branch resets it
InitProgress ==
    /\ pc = "start"
    /\ analysis_progress' =
          [analysis_progress EXCEPT !.status = "starting",
                                    !.progress = 0,
                                    !.total_moves = 0,
                                    !.current_move = 0,
                                    !.results = None,
                                    !.error = None]
    /\ pc' = "load"
    /\ answer' = None
    /\ UNCHANGED <<cpu_count, corpus, all_games, all_positions, futures,
                   completed, future, exc, engines, rpc, detect, runs>>

\* the board after `pushed` moves of game g, as the moves played
Board(g, pushed) == [j \in 1..pushed |-> <<g, j>>]

\* the position taken after board.push(move) instead of before it
PositionData_AfterMove(g, i) ==
    [board |-> Board(g, i),
     move_number |-> 1 + (i \div 2),
     turn |-> IF i % 2 = 0 THEN "Blancs" ELSE "Noirs",
     game_number |-> g]

\* the task of the i-th move of game g (lines 197-202)
PositionData(g, i) ==
    [board |-> Board(g, i - 1),
     move_number |-> 1 + ((i - 1) \div 2),
     turn |-> IF (i - 1) % 2 = 0 THEN "Blancs" ELSE "Noirs",
     game_number |-> g]

RECURSIVE Enumerate(_, _)
Enumerate(c, g) ==
    IF g > Len(c) THEN <<>>
    ELSE [i \in 1..c[g] |-> PositionData(g, i)] \o Enumerate(c, g + 1)

\* every game numbered 1
GameInfo_FirstNumber(g) == [game_number |-> 1, critical_moments |-> <<>>]

\* lines 182-190: game_number is game_count, the number of games read
GameInfo(g) == [game_number |-> g, critical_moments |-> <<>>]

\* lines 167-209: read every game, collect every position
LoadGames ==
    /\ pc = "load"
    /\ all_games' = [g \in 1..Len(corpus) |-> GameInfo(g)]
    /\ all_positions' = Enumerate(corpus, 1)
    /\ pc' = "loaded"
    /\ answer' = None
    /\ UNCHANGED <<cpu_count, corpus, analysis_progress, futures, completed,
                   future, exc, engines, rpc, detect, runs>>

\* lines 167-209: open() or the parser raises
LoadFault ==
    /\ pc = "load"
    /\ exc' = Some("load fault")
    /\ pc' = "except"
    /\ answer' = None
    /\ UNCHANGED <<cpu_count, corpus, analysis_progress, all_games,
                   all_positions, futures, completed, future, engines, rpc,
                   detect, runs>>

\* the entry created anew around the message
WithError_FreshEntry(entry, e) ==
    [entry EXCEPT !.error = e, !.total_moves = 0, !.current_move = 0,
                  !.progress = 0]

\* lines 212-214 and 261: analysis_progress[analysis_id]["error"] = ...
WithError(entry, e) == [entry EXCEPT !.error = e]

\* lines 211-215
EmptyCorpus ==
    /\ pc = "loaded"
    /\ all_games = <<>>
    /\ analysis_progress' =
          WithError(analysis_progress, Some(EmptyCorpusMessage))
    /\ pc' = "done"
    /\ answer' = None
    /\ UNCHANGED <<cpu_count, corpus, all_games, all_positions, futures,
                   completed, future, exc, engines, rpc, detect, runs>>

\* the total written one short
TotalMoves_OffByOne(positions) == Len(positions) - 1

\* lines 218-219: total_positions = len(all_positions), written to the entry
TotalMoves(positions) == Len(positions)

\* lines 218-219
SetTotal ==
    /\ pc = "loaded"
    /\ all_games # <<>>
    /\ analysis_progress' =
          [analysis_progress EXCEPT !.total_moves = TotalMoves(all_positions)]
    /\ pc' = "set_status"
    /\ answer' = None
    /\ UNCHANGED <<cpu_count, corpus, all_games, all_positions, futures,
                   completed, future, exc, engines, rpc, detect, runs>>

\* line 220 with the wrong status written
StatusAfterLoad_Completed == "completed"

\* line 220
StatusAfterLoad == "analyzing"

SetAnalyzing ==
    /\ pc = "set_status"
    /\ analysis_progress' =
          [analysis_progress EXCEPT !.status = StatusAfterLoad]
    /\ pc' = "submit"
    /\ answer' = None
    /\ UNCHANGED <<cpu_count, corpus, all_games, all_positions, futures,
                   completed, future, exc, engines, rpc, detect, runs>>

PendingFuture == [state |-> "pending", result |-> None, raised |-> FALSE]

\* the dict comprehension without the last position
Submitted_SkipLast(positions) ==
    [i \in 1..(Len(positions) - 1) |-> PendingFuture]

\* lines 227-230: one future per element of all_positions, in its order
Submitted(positions) ==
    [i \in 1..Len(positions) |-> PendingFuture]

\* lines 225-232: every task submitted
SubmitAll ==
    /\ pc = "submit"
    /\ futures' = Submitted(all_positions)
    /\ completed' = 0
    /\ pc' = "loop"
    /\ answer' = None
    /\ UNCHANGED <<cpu_count, corpus, analysis_progress, all_games,
                   all_positions, future, exc, engines, rpc, detect, runs>>

\* lines 227-230: executor.submit raises after k tasks were submitted
SubmitFault(k) ==
    /\ pc = "submit"
    /\ k < Len(all_positions)
    /\ futures' = [i \in 1..k |-> PendingFuture]
    /\ exc' = Some("dispatch fault")
    /\ pc' = "drain"
    /\ answer' = None
    /\ UNCHANGED <<cpu_count, corpus, analysis_progress, all_games,
                   all_positions, completed, future, engines, rpc, detect,
                   runs>>

Running == {i \in 1..Len(futures) : futures[i].state = "running"}

\* a future of the pool: its state, and once done what the call returned
\* or that it raised
FutureOf(state, out) ==
    [state |-> state, result |-> out.ret, raised |-> out.raised]

\* a pool worker takes a task and opens its engine (line 82)
StartTask(i) ==
    /\ futures[i].state = "pending"
    /\ Cardinality(Running) < MAX_WORKERS(cpu_count)
    /\ futures' = [futures EXCEPT ![i].state = "running"]
    /\ engines' = engines + 1
    /\ answer' = None
    /\ UNCHANGED <<cpu_count, corpus, analysis_progress, pc, all_games,
                   all_positions, completed, future, exc, rpc, detect, runs>>

\* a pool worker takes a task and popen_uci raises (lines 82, 127-131)
StartTaskFails(i) ==
    /\ futures[i].state = "pending"
    /\ Cardinality(Running) < MAX_WORKERS(cpu_count)
    /\ futures' = [futures EXCEPT ![i] =
          FutureOf("done", analyze_position(all_positions[i], OracleOpenRaises))]
    /\ answer' = None
    /\ UNCHANGED <<cpu_count, corpus, analysis_progress, pc, all_games,
                   all_positions, completed, future, exc, engines, rpc,
                   detect, runs>>

\* the worker itself counts its task as completed
FinishTask_CountsItself(i, o) ==
    /\ futures[i].state = "running"
    /\ LET out == analyze_position(all_positions[i], o)
       IN /\ futures' = [futures EXCEPT ![i] = FutureOf("done", out)]
          /\ engines' = IF out.released THEN engines - 1 ELSE engines
    /\ analysis_progress' =
          [analysis_progress EXCEPT !.current_move = @ + 1]
    /\ answer' = None
    /\ UNCHANGED <<cpu_count, corpus, pc, all_games, all_positions,
                   completed, future, exc, rpc, detect, runs>>

\* the rest of analyze_position for task i (lines 83-131)
FinishTask(i, o) ==
    /\ futures[i].state = "running"
    /\ LET out == analyze_position(all_positions[i], o)
       IN /\ futures' = [futures EXCEPT ![i] = FutureOf("done", out)]
          /\ engines' = IF out.released THEN engines - 1 ELSE engines
    /\ answer' = None
    /\ UNCHANGED <<cpu_count, corpus, analysis_progress, pc, all_games,
                   all_positions, completed, future, exc, rpc, detect, runs>>

\* completed += 2
CountCompletion_Twice(n) == n + 2

\* line 236
CountCompletion(n) == n + 1

\* lines 235-239: as_completed yields a finished future
NextCompleted(i) ==
    /\ pc = "loop"
    /\ futures[i].state = "done"
    /\ futures' = [futures EXCEPT ![i].state = "yielded"]
    /\ future' = i
    /\ completed' = CountCompletion(completed)
    /\ analysis_progress' =
          [analysis_progress EXCEPT !.current_move = CountCompletion(completed)]
    /\ pc' = "progress"
    /\ answer' = None
    /\ UNCHANGED <<cpu_count, corpus, all_games, all_positions, exc,
                   engines, rpc, detect, runs>>

\* lines 240-242
UpdateProgress ==
    /\ pc = "progress"
    /\ analysis_progress' =
          [analysis_progress EXCEPT
              !.progress = ProgressPercent(completed, Len(all_positions))]
    /\ pc' = "result"
    /\ answer' = None
    /\ UNCHANGED <<cpu_count, corpus, all_games, all_positions, futures,
                   completed, future, exc, engines, rpc, detect, runs>>

\* the game's list replaced by the new moment instead of extended
AppendMoment_Overwrite(games, game_number, result) ==
    [g \in 1..Len(games) |->
        IF games[g].game_number = game_number
        THEN [games[g] EXCEPT !.critical_moments = <<result>>]
        ELSE games[g]]

\* lines 249-252: append to the first game with that number
AppendMoment(games, game_number, result) ==
    IF \E g \in 1..Len(games) : games[g].game_number = game_number
    THEN LET g == CHOOSE h \in 1..Len(games) :
                      /\ games[h].game_number = game_number
                      /\ \A l \in 1..(h - 1) : games[l].game_number # game_number
         IN [games EXCEPT ![g].critical_moments = Append(@, result)]
    ELSE games

\* lines 244-254 without the try: an exception of future.result() leaves
\* the loop and the pool, on its way to the outer except clause
HandleResult_NoTry ==
    /\ pc = "result"
    /\ IF futures[future].raised
       THEN /\ pc' = "drain"
            /\ exc' = Some("task fault")
            /\ UNCHANGED all_games
       ELSE /\ pc' = "loop"
            /\ UNCHANGED exc
            /\ all_games' =
                  IF futures[future].result # None
                  THEN AppendMoment(all_games,
                                    all_positions[future].game_number,
                                    futures[future].result[1])
                  ELSE all_games
    /\ answer' = None
    /\ UNCHANGED <<cpu_count, corpus, analysis_progress, all_positions,
                   futures, completed, future, engines, rpc, detect, runs>>

\* lines 244-254: future.result() raises and line 253 catches it, or the
\* result, when there is one, is appended to its game
HandleResult ==
    /\ pc = "result"
    /\ all_games' =
          IF ~futures[future].raised /\ futures[future].result # None
          THEN AppendMoment(all_games, all_positions[future].game_number,
                            futures[future].result[1])
          ELSE all_games
    /\ pc' = "loop"
    /\ answer' = None
    /\ UNCHANGED <<cpu_count, corpus, analysis_progress, all_positions,
                   futures, completed, future, exc, engines, rpc, detect, runs>>

\* the as_completed loop is exhausted and the with blocks are left
PoolExit ==
    /\ pc = "loop"
    /\ \A i \in 1..Len(futures) : futures[i].state = "yielded"
    /\ pc' = "finalize"
    /\ answer' = None
    /\ UNCHANGED <<cpu_count, corpus, analysis_progress, all_games,
                   all_positions, futures, completed, future, exc,
                   engines, rpc, detect, runs>>

\* line 257
MarkCompleted ==
    /\ pc = "finalize"
    /\ analysis_progress' = [analysis_progress EXCEPT !.status = "completed"]
    /\ pc' = "set_results"
    /\ answer' = None
    /\ UNCHANGED <<cpu_count, corpus, all_games, all_positions, futures,
                   completed, future, exc, engines, rpc, detect, runs>>

\* line 258
SetResults ==
    /\ pc = "set_results"
    /\ analysis_progress' =
          [analysis_progress EXCEPT !.results = Some(all_games)]
    /\ pc' = "done"
    /\ answer' = None
    /\ UNCHANGED <<cpu_count, corpus, all_games, all_positions, futures,
                   completed, future, exc, engines, rpc, detect, runs>>

\* an executor that is left without waiting for its tasks
Drained_NoWait(fs) == TRUE

\* line 225, the executor's __exit__: shutdown(wait=True) returns once no
\* submitted task is waiting or running
Drained(fs) ==
    \A i \in 1..Len(fs) : fs[i].state \in {"done", "yielded"}

\* the executor's __exit__ waits for the submitted tasks, then the
\* exception goes on to the except clause
PoolDrain ==
    /\ pc = "drain"
    /\ Drained(futures)
    /\ pc' = "except"
    /\ answer' = None
    /\ UNCHANGED <<cpu_count, corpus, analysis_progress, all_games,
                   all_positions, futures, completed, future, exc,
                   engines, rpc, detect, runs>>

\* lines 260-261
RecordError ==
    /\ pc = "except"
    /\ analysis_progress' = WithError(analysis_progress, exc)
    /\ pc' = "done"
    /\ answer' = None
    /\ UNCHANGED <<cpu_count, corpus, all_games, all_positions, futures,
                   completed, future, exc, engines, rpc, detect, runs>>

\* ------------------------------------------------------------------------
\* The readers
\* ------------------------------------------------------------------------
\* get_progress, line 330: the entry as it is now
get_progress ==
    /\ answer' = Some([kind |-> "progress", entry |-> analysis_progress])
    /\ UNCHANGED <<jobVars, rpc, detect, runs>>

\* get_results, lines 348, 356, 363: the branch the status selects
ResultsBranch(entry) ==
    IF entry.status = "completed" THEN "render_results"
    ELSE IF entry.status = "error" THEN "render_error"
    ELSE "still_processing"

\* get_results, lines 346-348, 356, 364: the status is read
get_results ==
    /\ rpc = "idle"
    /\ IF ResultsBranch(analysis_progress) = "still_processing"
       THEN /\ rpc' = "idle"
            /\ answer' = Some([kind |-> "still_processing"])
       ELSE /\ rpc' = ResultsBranch(analysis_progress)
            /\ answer' = None
    /\ UNCHANGED <<jobVars, detect, runs>>

\* get_results, lines 349-355 and 357-362: the field to render is read
render_template ==
    /\ rpc # "idle"
    /\ answer' =
          IF rpc = "render_results"
          THEN Some([kind |-> "results", results |-> analysis_progress.results])
          ELSE Some([kind |-> "error", error |-> analysis_progress.error])
    /\ rpc' = "idle"
    /\ UNCHANGED <<jobVars, detect, runs>>

Orchestrator ==
    \/ InitProgress
    \/ LoadGames
    \/ LoadFault
    \/ EmptyCorpus
    \/ SetTotal
    \/ SetAnalyzing
    \/ SubmitAll
    \/ \E k \in 0..MaxTasks : SubmitFault(k)
    \/ \E i \in 1..Len(futures) : NextCompleted(i)
    \/ UpdateProgress
    \/ HandleResult
    \/ PoolExit
    \/ MarkCompleted
    \/ SetResults
    \/ PoolDrain
    \/ RecordError

Workers ==
    \/ \E i \in 1..Len(futures) : StartTask(i)
    \/ \E i \in 1..Len(futures) : StartTaskFails(i)
    \/ \E i \in 1..Len(futures) : \E o \in OracleSample : FinishTask(i, o)

Readers ==
    \/ get_progress
    \/ get_results
    \/ render_template

Next == Orchestrator \/ Workers \/ Readers

Spec == Init /\ [][Next]_vars

\* the thread of analyze_pgn_async and the pool's workers keep running: the
\* operating system schedules them, and every engine call has a time limit
\* The thread's fairness is WF_vars(Orchestrator), written in two parts:
\* the step of lines 240-242 is its only step from "progress" to "result"
\* and is always possible there, so its part is stated on pc alone.
FairSpec ==
    /\ Spec
    /\ WF_vars(pc # "progress" /\ Orchestrator)
    /\ WF_pc(pc = "progress" /\ pc' = "result")
    /\ WF_vars(Workers)

\* ------------------------------------------------------------------------
\* analyze_position on its own: one call on any answer of the engine
\* ------------------------------------------------------------------------
Evals == (0 - MaxEval)..MaxEval \cup {MateScore, 0 - MateScore}

EvalOptions == {None} \cup {Some(e) : e \in Evals}

\* n candidates; the first two carry the scores e1 and e2
InfoOf(n, e1, e2) ==
    [j \in 1..n |-> IF j = 1 THEN Candidate(e1, "m1")
                    ELSE IF j = 2 THEN Candidate(e2, "m2")
                    ELSE Candidate(Some(0), "m3")]

DetectOracles ==
    {OracleOk(InfoOf(n, e1, e2)) :
        n \in 0..MaxInfo, e1 \in EvalOptions, e2 \in EvalOptions}
    \cup {OracleOpenRaises}
    \cup {[open |-> "ok", probe |-> p, analyse |-> "ok", info |-> <<>>,
            quit |-> "ok"] : p \in {"empty", "raise"}}
    \cup {[open |-> "ok", probe |-> "ok", analyse |-> "raise", info |-> <<>>,
            quit |-> "ok"]}

InitDetect ==
    /\ cpu_count = 0
    /\ corpus = <<>>
    /\ analysis_progress = NewEntry
    /\ pc = "start"
    /\ all_games = <<>>
    /\ all_positions = <<>>
    /\ futures = <<>>
    /\ completed = 0
    /\ future = 0
    /\ exc = None
    /\ engines = 0
    /\ rpc = "idle"
    /\ answer = None
    /\ \E o \in DetectOracles :
          detect = [stage |-> "called",
                    position_data |-> PositionData(1, 2),
                    oracle |-> o]
    /\ runs = IdleRuns

\* lines 65-131: the call runs and returns
CallAnalyzePosition ==
    /\ detect.stage = "called"
    /\ detect' = [stage |-> "returned",
                  position_data |-> detect.position_data,
                  oracle |-> detect.oracle,
                  outcome |-> analyze_position(detect.position_data,
                                               detect.oracle)]
    /\ UNCHANGED <<jobVars, rpc, answer, runs>>

NextDetect == CallAnalyzePosition

SpecDetect == InitDetect /\ [][NextDetect]_vars

\* ------------------------------------------------------------------------
\* the as_completed loop twice on the same tasks: the same corpus, the same
\* answer of the engine for each position, the futures completing in any
\* order in each of the two runs
\* ------------------------------------------------------------------------
OrderOracles == {ClearBestMove, NoClearBestMove, EngineDies}

InitOrder ==
    /\ cpu_count = 0
    /\ corpus = <<>>
    /\ analysis_progress = NewEntry
    /\ pc = "start"
    /\ all_games = <<>>
    /\ all_positions = <<>>
    /\ futures = <<>>
    /\ completed = 0
    /\ future = 0
    /\ exc = None
    /\ engines = 0
    /\ rpc = "idle"
    /\ answer = None
    /\ detect = IdleDetect
    /\ \E c \in Corpora :
          \E oracle \in [1..Sum(c) -> OrderOracles] :
              LET games == [g \in 1..Len(c) |-> GameInfo(g)]
              IN runs = [stage |-> "collecting",
                         positions |-> Enumerate(c, 1),
                         oracle |-> oracle,
                         games |-> <<games, games>>,
                         order |-> << <<>>, <<>> >>]

\* lines 235-254 in run r: the future of task i is the next one as_completed
\* yields, and its result is handled
Collect(r, i) ==
    /\ runs.stage = "collecting"
    /\ \A k \in 1..Len(runs.order[r]) : runs.order[r][k] # i
    /\ LET position_data == runs.positions[i]
           done == FutureOf("done",
                            analyze_position(position_data, runs.oracle[i]))
       IN runs' = [runs EXCEPT
                     !.order[r] = Append(@, i),
                     !.games[r] =
                        IF ~done.raised /\ done.result # None
                        THEN AppendMoment(@, position_data.game_number,
                                          done.result[1])
                        ELSE @]
    /\ UNCHANGED <<jobVars, rpc, answer, detect>>

NextOrder == \E r \in 1..2 : \E i \in 1..Len(runs.positions) : Collect(r, i)

SpecOrder == InitOrder /\ [][NextOrder]_vars

\* ------------------------------------------------------------------------
\* Properties
\* ------------------------------------------------------------------------
\* the engine answered with at least two candidates whose scores are integers
Ranked(o) ==
    /\ o.open = "ok"
    /\ o.probe = "ok"
    /\ o.analyse = "ok"
    /\ Len(o.info) >= 2
    /\ o.info[1].eval # None
    /\ o.info[2].eval # None

Gap(o) == Abs(o.info[1].eval[1] - o.info[2].eval[1])

\* C1: on an engine answer with at least 2 candidates whose two top scores
\* are integers eval1 and eval2, analyze_position returns a record if and
\* only if |eval1 - eval2| > 100 and -50 < eval2 < 50, and the record's
\* difference is |eval1 - eval2| / 100; in every other case it returns no
\* record; it never raises.
C1_DetectorRule ==
    detect.stage = "returned" =>
        LET o == detect.oracle
            out == detect.outcome
        IN /\ ~out.raised
           /\ Ranked(o) =>
                 /\ (out.ret # None) <=>
                       (Gap(o) > 100 /\ -50 < o.info[2].eval[1]
                                     /\ o.info[2].eval[1] < 50)
                 /\ out.ret # None =>
                       out.ret[1].difference = [num |-> Gap(o), den |-> 100]
           /\ ~Ranked(o) => out.ret = None

\* C1 witness: a call returned a critical moment whose runner-up score is
\* at the edge of the band and whose gap is just above the threshold
C1_Witness ==
    /\ detect.stage = "returned"
    /\ Ranked(detect.oracle)
    /\ detect.outcome.ret # None
    /\ detect.oracle.info[2].eval[1] = 49
    /\ Gap(detect.oracle) = 101

\* the thread of analyze_pgn_async ended without an exception, on a corpus
\* with at least one game
EndedNormally ==
    /\ pc = "done"
    /\ exc = None
    /\ Len(corpus) >= 1

\* C2 as stated: for any N >= 0 positions, once all tasks have completed,
\* current_move = total_moves = N, progress = 100 and status = 'completed'.
C2_Original ==
    EndedNormally =>
        /\ analysis_progress.current_move = Len(all_positions)
        /\ analysis_progress.total_moves = Len(all_positions)
        /\ analysis_progress.progress = 100
        /\ analysis_progress.status = "completed"

\* C2 amended: once all N tasks have completed, current_move = total_moves
\* = N and status = 'completed'; progress is 100 when N >= 1 and stays 0
\* when N = 0.
C2_Amended ==
    EndedNormally =>
        /\ analysis_progress.current_move = Len(all_positions)
        /\ analysis_progress.total_moves = Len(all_positions)
        /\ analysis_progress.progress =
              (IF Len(all_positions) >= 1 THEN 100 ELSE 0)
        /\ analysis_progress.status = "completed"

\* C2 witness: a job over at least two positions has ended at 100 percent
C2_Witness ==
    /\ EndedNormally
    /\ Len(all_positions) >= 2
    /\ analysis_progress.progress = 100
    /\ analysis_progress.status = "completed"

\* C3: when the loader parses zero games, the status goes from 'starting'
\* to 'error', the error field holds the fixed message and results stays
\* None.
C3_EmptyCorpusIsError ==
    (pc = "done" /\ exc = None /\ Len(corpus) = 0) =>
        /\ analysis_progress.status = "error"
        /\ analysis_progress.error = Some(EmptyCorpusMessage)
        /\ analysis_progress.results = None

\* C4: when an exception escapes the load/dispatch body, the status becomes
\* 'error' and the error field holds the captured message.
C4_FaultIsError ==
    (pc = "done" /\ exc # None) =>
        /\ analysis_progress.status = "error"
        /\ analysis_progress.error = exc

\* C5: once the thread of analyze_pgn_async has ended, get_results no
\* longer answers 'still_processing'.
C5_EndedJobIsFetchable ==
    pc = "done" => ResultsBranch(analysis_progress) # "still_processing"

\* C6: in every reachable state, status = 'completed' implies that results
\* is set.
C6_CompletedHasResults ==
    analysis_progress.status = "completed" => analysis_progress.results # None

\* C7: the progress field never decreases from one state to the next.
C7_ProgressMonotone ==
    [][analysis_progress'.progress >= analysis_progress.progress]_vars

\* C7 witness: the percentage has risen twice
C7_Witness ==
    /\ analysis_progress.current_move >= 2
    /\ analysis_progress.progress = 100
    /\ pc = "result"

InRange(entry) ==
    /\ 0 <= entry.current_move
    /\ entry.current_move <= entry.total_moves
    /\ 0 <= entry.progress
    /\ entry.progress <= 100

IsSnapshot == answer # None /\ answer[1].kind = "progress"

\* C8: in every reachable state, and in every snapshot get_progress
\* returns, 0 <= current_move <= total_moves and 0 <= progress <= 100.
C8_CountersInRange ==
    /\ InRange(analysis_progress)
    /\ IsSnapshot => InRange(answer[1].entry)

\* C8 witness: a poll during the analysis returned a snapshot with some,
\* not all, tasks counted
C8_Witness ==
    /\ IsSnapshot
    /\ answer[1].entry.status = "analyzing"
    /\ answer[1].entry.current_move >= 1
    /\ answer[1].entry.current_move < answer[1].entry.total_moves
    /\ answer[1].entry.progress > 0

\* C9: every snapshot get_progress returns with total_moves > 0 satisfies
\* progress = floor(current_move * 100 / total_moves).
C9_SnapshotConsistent ==
    (IsSnapshot /\ answer[1].entry.total_moves > 0) =>
        answer[1].entry.progress =
            (answer[1].entry.current_move * 100) \div answer[1].entry.total_moves

StatusStep ==
    \/ analysis_progress'.status = analysis_progress.status
    \/ /\ analysis_progress.status = "starting"
       /\ analysis_progress'.status \in {"analyzing", "error"}
    \/ /\ analysis_progress.status = "analyzing"
       /\ analysis_progress'.status \in {"completed", "error"}

\* C10: the status only moves along starting -> analyzing -> completed,
\* starting -> error or analyzing -> error; it never moves backwards and
\* never changes once it is 'completed' or 'error'.
C10_StatusOneWay == [][StatusStep]_vars

\* C10 witness: the status has gone all the way to 'completed'
C10_Witness ==
    /\ analysis_progress.status = "completed"
    /\ pc = "done"

\* the faults of the thread itself, outside any task
OrchestratorFaults == {Some("load fault"), Some("dispatch fault")}

TaskFailureContained ==
    /\ \A i \in 1..Len(futures) : StartTaskFails(i) =>
          (futures'[i].result = None /\ ~futures'[i].raised)
    /\ (pc = "result" /\ pc' = "loop" /\ futures[future].raised) =>
          all_games' = all_games

\* C11: a failure inside a task (the engine cannot start, an engine call
\* raises, the future raises) is contained to that task: the error field
\* is only ever set by an empty corpus or a fault of the thread itself, a
\* failed task yields no moment and leaves the games untouched, and once
\* the tasks are dispatched the job reaches 'completed' with current_move
\* = total_moves, whichever tasks fail.
C11_TaskFailureContained ==
    /\ [](analysis_progress.error # None =>
             (Len(corpus) = 0 \/ exc \in OrchestratorFaults))
    /\ [](\A i \in 1..Len(futures) :
             futures[i].raised => futures[i].result = None)
    /\ [][TaskFailureContained]_vars
    /\ [](analysis_progress.status = "completed" =>
             analysis_progress.current_move = analysis_progress.total_moves)
    /\ (pc = "loop") ~> (analysis_progress.status = "completed")

\* C11 witness: the job completed although one task's future raised, and
\* another task's moment is in its game
C11_Witness ==
    /\ analysis_progress.status = "completed"
    /\ analysis_progress.error = None
    /\ \E i \in 1..Len(futures) : futures[i].raised
    /\ \E g \in 1..Len(all_games) : all_games[g].critical_moments # <<>>

\* how far a future has got: taken by a worker, finished, handed out by
\* as_completed
Rank(state) ==
    CASE state = "pending" -> 0
      [] state = "running" -> 1
      [] state = "done" -> 2
      [] state = "yielded" -> 3

Yielded == {i \in 1..Len(futures) : futures[i].state = "yielded"}

InCollection == pc \in {"loop", "progress", "result", "finalize", "set_results"}

EachTaskOnceStep ==
    /\ Len(futures') = Len(futures) =>
          \A i \in 1..Len(futures) :
              Rank(futures'[i].state) >= Rank(futures[i].state)
    /\ analysis_progress'.current_move # analysis_progress.current_move =>
          /\ analysis_progress'.current_move =
                analysis_progress.current_move + 1
          /\ \E i \in 1..Len(futures) :
                /\ futures[i].state = "done"
                /\ futures'[i].state = "yielded"
                /\ \A j \in 1..Len(futures) : j # i => futures'[j] = futures[j]
    /\ (\E i \in 1..Len(futures) :
            /\ Len(futures') = Len(futures)
            /\ futures[i].state # "yielded"
            /\ futures'[i].state = "yielded") =>
          analysis_progress'.current_move = analysis_progress.current_move + 1

\* C12: in the analyzing phase there is one future per enumerated position,
\* a future never goes back to an earlier state (so no task is taken twice),
\* every future has been run and handed out when the job is 'completed',
\* and current_move moves only by +1, exactly when one future is handed
\* out, whatever its task returned or raised.
C12_EachTaskOnce ==
    /\ [](InCollection => Len(futures) = Len(all_positions))
    /\ [](InCollection =>
             analysis_progress.current_move = Cardinality(Yielded))
    /\ [](analysis_progress.status = "completed" =>
             /\ Len(futures) = Len(all_positions)
             /\ \A i \in 1..Len(futures) : futures[i].state = "yielded")
    /\ [][EachTaskOnceStep]_vars

\* C12 witness: two tasks were counted, one that returned a moment and one
\* whose future raised
C12_Witness ==
    /\ analysis_progress.current_move = 2
    /\ Len(futures) = 2
    /\ \E i, j \in 1..2 :
          /\ futures[i].state = "yielded" /\ futures[i].result # None
          /\ futures[j].state = "yielded" /\ futures[j].raised

Moments(game) == {game.critical_moments[k] : k \in 1..Len(game.critical_moments)}

BothCollected ==
    /\ runs.stage = "collecting"
    /\ \A r \in 1..2 : Len(runs.order[r]) = Len(runs.positions)

\* C13: two runs on the same corpus with the same engine answers, whose
\* futures completed in any two orders, end with the same set of critical
\* moments in every game.
C13_OrderIndependent ==
    BothCollected =>
        \A g \in 1..Len(runs.games[1]) :
            Moments(runs.games[1][g]) = Moments(runs.games[2][g])

\* C13 witness: the futures completed in different orders and one game's
\* list holds the same two moments in two different orders
C13_Witness ==
    /\ BothCollected
    /\ runs.order[1] # runs.order[2]
    /\ \E g \in 1..Len(runs.games[1]) :
          /\ Len(runs.games[1][g].critical_moments) = 2
          /\ runs.games[1][g].critical_moments #
                runs.games[2][g].critical_moments

Max(a, b) == IF a >= b THEN a ELSE b

\* C14 as stated: whatever the host's parallelism p, undeterminable
\* included, the pool has max(p, 4) workers, never fewer than 4.
C14_Original ==
    /\ MAX_WORKERS(cpu_count) = Max(cpu_count, DefaultWorkers)
    /\ MAX_WORKERS(cpu_count) >= DefaultWorkers

\* C14 amended: the pool has p workers when the host reports p >= 1 and 4
\* workers only when it reports nothing; the tasks in evaluation never
\* exceed that number.
C14_Amended ==
    /\ cpu_count = 0 => MAX_WORKERS(cpu_count) = DefaultWorkers
    /\ cpu_count >= 1 => MAX_WORKERS(cpu_count) = cpu_count
    /\ cpu_count >= 1 => Cardinality(Running) <= cpu_count

\* C14 witness: on a host with one processor one task is in evaluation and
\* another one waits for the only worker
C14_Witness ==
    /\ cpu_count = 1
    /\ Cardinality(Running) = 1
    /\ \E i \in 1..Len(futures) : futures[i].state = "pending"

CountIn(list, m) == Cardinality({k \in 1..Len(list) : list[k] = m})

\* the tasks of the game numbered n whose call returned the moment m
Producers(n, m) ==
    {i \in 1..Len(futures) :
        /\ all_positions[i].game_number = n
        /\ ~futures[i].raised
        /\ futures[i].result = Some(m)}

ProducedOrListed ==
    {futures[i].result[1] :
        i \in {j \in 1..Len(futures) : futures[j].result # None}}
    \cup UNION {Moments(all_games[g]) : g \in 1..Len(all_games)}

\* C15: when the job is 'completed', a moment occurs in a game's list as
\* many times as there are tasks of that game that returned it: nothing is
\* lost, duplicated or filed under another game.
C15_MomentsInOwnGame ==
    analysis_progress.status = "completed" =>
        \A g \in 1..Len(all_games) : \A m \in ProducedOrListed :
            CountIn(all_games[g].critical_moments, m) =
                Cardinality(Producers(all_games[g].game_number, m))

\* C15 witness: a completed job of two games, each with a moment of its own
\* task in its list
C15_Witness ==
    /\ analysis_progress.status = "completed"
    /\ Len(all_games) = 2
    /\ \A g \in 1..2 : Len(all_games[g].critical_moments) = 1
    /\ \A i \in 1..Len(futures) : futures[i].result # None

\* a pool worker takes a task or finishes one
WorkerStep ==
    \E i \in 1..Len(futures) :
        /\ Len(futures') = Len(futures)
        /\ futures[i].state \in {"pending", "running"}
        /\ futures'[i].state \in {"running", "done"}
        /\ futures'[i] # futures[i]

SharedWritten ==
    \/ analysis_progress'.current_move # analysis_progress.current_move
    \/ analysis_progress'.progress # analysis_progress.progress
    \/ all_games' # all_games

\* C16: every step that changes current_move, progress or a game's list is
\* a step of the thread of analyze_pgn_async (its position moves) and no
\* step of a pool worker: one thread writes them, one write at a time.
C16_OnlyOrchestratorWrites ==
    [][SharedWritten => (pc' # pc /\ ~WorkerStep)]_vars

\* C16 witness: the thread has just counted a completion and written the
\* counter while a pool worker is inside analyze_position
C16_Witness ==
    /\ pc = "result"
    /\ analysis_progress.current_move = 1
    /\ analysis_progress.progress > 0
    /\ Cardinality(Running) = 1

AfterAnalyzing == pc \in {"finalize", "set_results", "except", "done"}

C18_WorkersScopedToDispatch ==
    /\ Cardinality(Running) <= MAX_WORKERS(cpu_count)
    /\ (analysis_progress.status = "completed"
          \/ analysis_progress.error # None) =>
          \A i \in 1..Len(futures) : futures[i].state \in {"done", "yielded"}

\* C18 witness: the dispatch failed after a task was submitted, and the
\* error was recorded only after that task had run
C18_Witness ==
    /\ analysis_progress.error = exc
    /\ exc = Some("dispatch fault")
    /\ Len(futures) >= 1
    /\ \A i \in 1..Len(futures) : futures[i].state = "done"

\* the number of tasks of the games before game g
TasksBefore(g) == Sum(SubSeq(corpus, 1, g - 1))

\* what the i-th task of game g has to carry
TaskOfPly(task, g, i) ==
    /\ task.game_number = g
    /\ Len(task.board) = i - 1
    /\ \A j \in 1..(i - 1) : task.board[j] = <<g, j>>
    /\ task.move_number = (Len(task.board) \div 2) + 1
    /\ task.turn = IF Len(task.board) % 2 = 0 THEN "Blancs" ELSE "Noirs"

\* C19: once the corpus is read, all_positions holds one task per mainline
\* move, game after game and ply after ply, each with its game's number,
\* the board before the move, and that board's move number and side to
\* move; total_moves is their number before 'analyzing' is written.
C19_EnumeratorOrder ==
    /\ all_games # <<>> =>
          /\ Len(all_positions) = Sum(corpus)
          /\ \A g \in 1..Len(corpus) : \A i \in 1..corpus[g] :
                TaskOfPly(all_positions[TasksBefore(g) + i], g, i)
    /\ pc = "set_status" =>
          /\ analysis_progress.status = "starting"
          /\ analysis_progress.total_moves = Sum(corpus)
    /\ analysis_progress.status = "analyzing" =>
          analysis_progress.total_moves = Sum(corpus)

\* C19 witness: a game of two moves is being analysed; its second task is
\* Black's, on the board after the first move
C19_Witness ==
    /\ analysis_progress.status = "analyzing"
    /\ corpus = <<0, 2>>
    /\ Len(all_positions) = 2
    /\ all_positions[2].game_number = 2
    /\ all_positions[2].turn = "Noirs"
    /\ all_positions[2].board = << <<2, 1>> >>

\* C20: the step that records an error changes nothing else of the entry
\* nor the games: results stays None and current_move, progress and
\* total_moves keep their values; and whenever the error is set, results
\* is None.
C20_ErrorLeavesRest ==
    /\ [][analysis_progress'.error # analysis_progress.error =>
            /\ analysis_progress' =
                  [analysis_progress EXCEPT !.error = analysis_progress'.error]
            /\ analysis_progress'.results = None
            /\ all_games' = all_games]_vars
    /\ [](analysis_progress.error # None => analysis_progress.results = None)

\* C20 witness: the dispatch failed in the analyzing phase; the error is
\* recorded and the total written before it is still there
C20_Witness ==
    /\ analysis_progress.error = Some("dispatch fault")
    /\ analysis_progress.status = "analyzing"
    /\ analysis_progress.total_moves = 2
    /\ analysis_progress.results = None

====
